---------------------------- MODULE Spec2Model ----------------------------
(***************************************************************************)
(* Finite covers of interval-exchange / linear-involution permutations:    *)
(* a model of surface_dynamics/interval_exchanges/cover.py                 *)
(* (class PermutationCover).                                               *)
(*                                                                         *)
(* Conventions.  Copies of the fundamental domain are 0..degree-1, as in   *)
(* the code.  A python list indexed from 0 (a monodromy permutation, a     *)
(* sign table) is a function whose domain is 0..len-1; python lists that   *)
(* are only appended to and iterated (orbits, profiles) are sequences.     *)
(* Positions in the two rows of the base permutation are 0-based, as in    *)
(* the code: the label at (i,p) is Row(b,i)[p+1].                          *)
(***************************************************************************)
EXTENDS Integers, Sequences, FiniteSets, TLC

(***************************************************************************)
(* Bounds of the model.                                                    *)
(***************************************************************************)
MaxDegree == 3

\* the longest list, and the number of values of its entries, that a caller
\* hands to the constructor
MaxListLen == 2

\* lyapunov_exponents_H_plus: the largest nb_vectors, nb_experiments and
\* nb_iterations of a call
MaxVectors == 2

MaxExperiments == 2

MaxIterations == 1

VARIABLES
    base,           \* self._base
    degree,         \* self._degree_cover
    permut,         \* self._permut_cover : sequence, one entry per alphabet rank
    pc,             \* position of the running call
    sign,           \* interval_diagram: the sign argument
    base_diagram,   \* interval_diagram: local base_diagram
    orbit_k,        \* interval_diagram: index of the orbit of the for loop (1-based)
    cover_copies,   \* interval_diagram: local cover_copies
    pop_from,       \* interval_diagram: where set.pop() starts looking in this call
    d_init,         \* interval_diagram: local d_init
    d,              \* interval_diagram: local d
    singularity,    \* interval_diagram: local singularity
    singularities,  \* interval_diagram: local singularities (the result)
    starts,         \* history: for each covering orbit, its base orbit and pass starts
    ret,            \* value (or exception) of the last finished call
    args,           \* the arguments of the constructor call
    heap,           \* the python lists of integers, by address
    lists,          \* the python lists of lists: for each holder, the addresses it holds
    copied,         \* the fields of the cover made by __copy__
    data_ref,       \* the address returned by covering_data(label, list=True), or 0
    call,           \* lyapunov_exponents_H_plus: the arguments and locals of the call
    engine,         \* the invocations of the numeric engine made by the call
    cache           \* the value _characters() has computed and keeps (cached_method)

vars == <<base, degree, permut, pc, sign, base_diagram, orbit_k, cover_copies,
          pop_from, d_init, d, singularity, singularities, starts, ret,
          args, heap, lists, copied, data_ref, call, engine, cache>>

diagVars == <<sign, base_diagram, orbit_k, cover_copies, pop_from, d_init, d,
              singularity, singularities, starts>>

ctorVars == <<args, heap, lists, copied, data_ref>>

lyapVars == <<call, engine>>

(***************************************************************************)
(* Python lists indexed from 0.                                            *)
(***************************************************************************)
Range(f) == {f[x] : x \in DOMAIN f}

Copies(deg) == 0 .. (deg - 1)

\* all bijections of 0..deg-1, as index lists
Perms(deg) == {f \in [Copies(deg) -> Copies(deg)] : Range(f) = Copies(deg)}

IsBijectionOfSize(f, deg) ==
    /\ DOMAIN f = Copies(deg)
    /\ Range(f) = Copies(deg)

\* list.index(x): the first position holding x; defined only when x is in the list
HasIndex(f, x) == \E i \in DOMAIN f : f[i] = x

ListIndex(f, x) == CHOOSE i \in DOMAIN f : f[i] = x /\ \A k \in DOMAIN f : f[k] = x => i <= k

Last(s) == s[Len(s)]

Front(s) == SubSeq(s, 1, Len(s) - 1)

(***************************************************************************)
(* The base permutation (an external collaborator of cover.py): two rows   *)
(* of labels in which every label occurs exactly twice.                    *)
(***************************************************************************)
IET_ab == [kind |-> "IET", top |-> <<"a", "b">>, bot |-> <<"b", "a">>, irreducible |-> TRUE]

IET_abc == [kind |-> "IET", top |-> <<"a", "b", "c">>, bot |-> <<"c", "b", "a">>, irreducible |-> TRUE]

GP_aab == [kind |-> "GP", top |-> <<"a", "a", "b">>, bot |-> <<"b", "c", "c">>, irreducible |-> TRUE]

IET_reducible == [kind |-> "IET", top |-> <<"a", "b">>, bot |-> <<"a", "b">>, irreducible |-> FALSE]

\* a general permutation whose rows have different lengths
GP_aabbc == [kind |-> "GP", top |-> <<"a", "a", "b", "b", "c">>, bot |-> <<"c", "d", "d">>, irreducible |-> TRUE]

IrreducibleBases == {IET_ab, IET_abc, GP_aab}

AllBases == IrreducibleBases \cup {IET_reducible, GP_aabbc}

Row(b, i) == IF i = 0 THEN b.top ELSE b.bot

LabelAt(b, i, p) == Row(b, i)[p + 1]

\* reading order on occurrences
OccBefore(i1, p1, i2, p2) == i1 < i2 \/ (i1 = i2 /\ p1 < p2)

\* the alphabet: the labels in order of first appearance
RECURSIVE Dedup(_)
Dedup(s) ==
    IF s = <<>> THEN <<>>
    ELSE LET r == Dedup(Front(s))
         IN IF \E k \in 1..Len(r) : r[k] = Last(s) THEN r ELSE Append(r, Last(s))

\* the alphabets of the bases, computed once
Alphabets == [b \in AllBases |-> Dedup(b.top \o b.bot)]

Alphabet(b) == Alphabets[b]

\* the one element of a one-element set
Only(S) == CHOOSE x \in S : TRUE

\* alphabet.rank(label), 0-based
Rank(b, label) == (CHOOSE k \in 1..Len(Alphabet(b)) : Alphabet(b)[k] = label) - 1

\* len(base): the number of intervals
BaseLen(b) == (Len(b.top) + Len(b.bot)) \div 2

\* the twin of the occurrence (i,p): the other occurrence of its label
BaseTwin(b, i, p) ==
    CHOOSE t \in (0..1) \X (0 .. (Len(b.top) + Len(b.bot))) :
        /\ t[2] < Len(Row(b, t[1]))
        /\ t # <<i, p>>
        /\ LabelAt(b, t[1], t[2]) = LabelAt(b, i, p)

\* _twins_and_orientation()[1]: 0 for the first occurrence of a label in
\* reading order, 1 for the second
twin_to_index(b, i, p) ==
    LET t == BaseTwin(b, i, p) IN IF OccBefore(i, p, t[1], t[2]) THEN 0 ELSE 1

\* the occurrence that carries (label, j)
OccOf(b, label, j) ==
    CHOOSE t \in (0..1) \X (0 .. (Len(b.top) + Len(b.bot))) :
        /\ t[2] < Len(Row(b, t[1]))
        /\ LabelAt(b, t[1], t[2]) = label
        /\ twin_to_index(b, t[1], t[2]) = j

Letters(b) == {<<Alphabet(b)[k], j>> : k \in 1..Len(Alphabet(b)), j \in 0..1}

\* the letter taken from the pending set: the first in alphabet order
PickLetter(b, letters) ==
    CHOOSE x \in letters : \A y \in letters :
        \/ Rank(b, x[1]) < Rank(b, y[1])
        \/ (x[1] = y[1] /\ x[2] <= y[2])

\* one step around a singularity of the base: jump to the twin, then move to
\* the neighbouring position (right on the top row, left on the bottom row)
NextOcc(b, i, p) ==
    LET t == BaseTwin(b, i, p)
        m0 == Len(b.top)
        m1 == Len(b.bot)
    IN IF t[1] = 0
       THEN IF t[2] + 1 = m0 THEN <<1, m1 - 1>> ELSE <<0, t[2] + 1>>
       ELSE IF t[2] - 1 = -1 THEN <<0, 0>> ELSE <<1, t[2] - 1>>

AtEnd(b, i, p) == (i = 1 /\ p = Len(b.bot) - 1) \/ (i = 0 /\ p = 0)

\* follow one orbit of the base; an entry of the orbit is a sequence of
\* (label, j) pairs: one pair, or the two pairs glued at an end of the rows
RECURSIVE FollowBase(_, _, _, _, _, _)
FollowBase(b, glue_ends, letters, i, p, sing) ==
    LET n == NextOcc(b, i, p)
        lj == <<LabelAt(b, n[1], n[2]), twin_to_index(b, n[1], n[2])>>
        glued == glue_ends /\ AtEnd(b, n[1], n[2])
    IN IF lj \notin letters
       THEN [orbit |-> IF glued
                       THEN SubSeq(sing, 2, Len(sing) - 1) \o <<Last(sing) \o sing[1]>>
                       ELSE sing,
             letters |-> letters]
       ELSE FollowBase(b, glue_ends, letters \ {lj}, n[1], n[2],
                       IF glued THEN Append(Front(sing), Last(sing) \o <<lj>>)
                                ELSE Append(sing, <<lj>>))

RECURSIVE BaseOrbits(_, _, _)
BaseOrbits(b, glue_ends, letters) ==
    IF letters = {} THEN <<>>
    ELSE LET lj == PickLetter(b, letters)
             o == OccOf(b, lj[1], lj[2])
             r == FollowBase(b, glue_ends, letters \ {lj}, o[1], o[2], << <<lj>> >>)
         IN <<r.orbit>> \o BaseOrbits(b, glue_ends, r.letters)

\* the interval diagrams of the bases, computed once
BaseDiagrams == [b \in AllBases |-> [g \in BOOLEAN |-> BaseOrbits(b, g, Letters(b))]]

\* base.interval_diagram(glue_ends, sign=True)
BaseIntervalDiagram(b, glue_ends) == BaseDiagrams[b][glue_ends]


(***************************************************************************)
(* The cover: PermutationCover(base, degree, permut).                      *)
(***************************************************************************)
\* self._permut_cover[alphabet.rank(label)]
PermOf(b, pm, label) == pm[Rank(b, label) + 1]

\* the monodromy lists a well-formed cover of degree deg over b can carry
Monodromies(b, deg) == [1..Len(Alphabet(b)) -> Perms(deg)]

NoRet == [op |-> "none", arg |-> <<>>, status |-> "none", val |-> <<>>]

(***************************************************************************)
(* interval_diagram(glue_ends, sign), cover.py lines 134-161.              *)
(***************************************************************************)
\* line 152: the copy reached after crossing the occurrence (label, j) from copy c
CrossCopy(perm, j, c) == IF j # 0 THEN ListIndex(perm, c) ELSE perm[c]

\* line 152 raises ValueError when list.index finds nothing
CrossFails(perm, j, c) == j # 0 /\ ~HasIndex(perm, c)

\* lines 149-152: one pass of the for loop over the base orbit, from entry k on
RECURSIVE OnePass(_, _, _, _, _, _, _)
OnePass(b, pm, sg, orbit, k, c, acc) ==
    IF k > Len(orbit) THEN [d |-> c, entries |-> acc, failed |-> FALSE]
    ELSE LET label == orbit[k][1][1]
             j == orbit[k][1][2]
             entry == IF sg THEN <<label, j, c>> ELSE <<label, c>>
         IN IF CrossFails(PermOf(b, pm, label), j, c)
            THEN [d |-> c, entries |-> Append(acc, entry), failed |-> TRUE]
            ELSE Only({OnePass(b, pm, sg, orbit, k + 1, c2, acc2) :
                          c2 \in {CrossCopy(PermOf(b, pm, label), j, c)},
                          acc2 \in {Append(acc, entry)}})

\* line 157: cover_copies.remove(d)
RemoveCopy_forgotten(copies, c) == copies

RemoveCopy(copies, c) == copies \ {c}

\* line 145: set.pop() returns an arbitrary element of the set.  Which one is
\* fixed by the layout of the set's table; the model lets every call start the
\* scan of the table at any copy and takes the first pending copy from there on
SetPop(copies, from, deg) ==
    CHOOSE c \in copies : \A e \in copies : (c - from) % deg <= (e - from) % deg

\* lines 135-143: the call, up to the first test of the while loop
ID_Call ==
    /\ pc = "ready"
    /\ \E sg \in BOOLEAN : sign' = sg
    /\ \E c \in Copies(degree) : pop_from' = c
    /\ base_diagram' = BaseIntervalDiagram(base, FALSE)
    /\ singularities' = <<>>
    /\ starts' = <<>>
    /\ orbit_k' = 1
    /\ cover_copies' = Copies(degree)
    /\ pc' = "while_copies"
    /\ UNCHANGED <<base, degree, permut, d_init, d, singularity, ret>>
    /\ UNCHANGED ctorVars
    /\ UNCHANGED lyapVars
    /\ UNCHANGED cache

\* lines 144-147: the while test succeeds, a copy is popped from the set
ID_Pop ==
    /\ pc = "while_copies"
    /\ cover_copies # {}
    /\ LET c == SetPop(cover_copies, pop_from, degree)
       IN /\ d_init' = c
          /\ d' = c
          /\ cover_copies' = cover_copies \ {c}
    /\ singularity' = <<>>
    /\ starts' = Append(starts, [orbit |-> orbit_k, passes |-> <<>>])
    /\ pc' = "pass"
    /\ UNCHANGED <<base, degree, permut, sign, base_diagram, orbit_k, pop_from,
                   singularities, ret>>
    /\ UNCHANGED ctorVars
    /\ UNCHANGED lyapVars
    /\ UNCHANGED cache

\* lines 148-159: one pass over the base orbit, then break (and append the
\* finished singularity) or remove the copy reached from the pending set
ID_Pass ==
    /\ pc = "pass"
    /\ \E r \in {OnePass(base, permut, sign, base_diagram[orbit_k], 1, d, <<>>)} :
       LET n == Len(starts)
       IN /\ singularity' = singularity \o r.entries
          /\ starts' = [starts EXCEPT ![n].passes = Append(@, d)]
          /\ d' = r.d
          /\ IF r.failed
             THEN /\ pc' = "raised"
                  /\ ret' = [op |-> "interval_diagram", arg |-> <<>>, status |-> "ValueError", val |-> <<>>]
                  /\ UNCHANGED <<cover_copies, singularities>>
             ELSE IF r.d = d_init
             THEN /\ singularities' = Append(singularities, singularity')
                  /\ pc' = "while_copies"
                  /\ UNCHANGED <<cover_copies, ret>>
             ELSE IF r.d \in cover_copies
             THEN /\ cover_copies' = RemoveCopy(cover_copies, r.d)
                  /\ pc' = "pass"
                  /\ UNCHANGED <<singularities, ret>>
             ELSE /\ pc' = "raised"
                  /\ ret' = [op |-> "interval_diagram", arg |-> <<>>, status |-> "KeyError", val |-> <<>>]
                  /\ UNCHANGED <<cover_copies, singularities>>
    /\ UNCHANGED <<base, degree, permut, sign, base_diagram, orbit_k, pop_from, d_init>>
    /\ UNCHANGED ctorVars
    /\ UNCHANGED lyapVars
    /\ UNCHANGED cache

\* lines 141-144, 161: the while test fails; next base orbit, or return
ID_NextOrbit ==
    /\ pc = "while_copies"
    /\ cover_copies = {}
    /\ IF orbit_k < Len(base_diagram)
       THEN /\ orbit_k' = orbit_k + 1
            /\ cover_copies' = Copies(degree)
            /\ pc' = "while_copies"
            /\ UNCHANGED ret
       ELSE /\ pc' = "done"
            /\ ret' = [op |-> "interval_diagram", arg |-> <<>>, status |-> "ok", val |-> singularities]
            /\ UNCHANGED <<orbit_k, cover_copies>>
    /\ UNCHANGED <<base, degree, permut, sign, base_diagram, pop_from, d_init, d,
                   singularity, singularities, starts>>
    /\ UNCHANGED ctorVars
    /\ UNCHANGED lyapVars
    /\ UNCHANGED cache

\* a cover that satisfies the data model: irreducible base, one bijection of
\* 0..degree-1 per label
InitCover ==
    /\ base \in IrreducibleBases
    /\ degree \in 1..MaxDegree
    /\ permut \in Monodromies(base, degree)

InitLocals ==
    /\ sign = FALSE
    /\ base_diagram = <<>>
    /\ orbit_k = 0
    /\ cover_copies = {}
    /\ pop_from = 0
    /\ d_init = 0
    /\ d = 0
    /\ singularity = <<>>
    /\ singularities = <<>>
    /\ starts = <<>>
    /\ ret = NoRet

NoCopy == [made |-> FALSE, base |-> <<>>, degree |-> 0]

NoCall == [made |-> FALSE]

NoCache == [made |-> FALSE]

\* the python value None; an optional integer v is held as <<v>>
None == <<>>

\* a cover that exists already: its construction is not part of the run
InitBuilt ==
    /\ args = <<>>
    /\ heap = <<>>
    /\ lists = <<>>
    /\ copied = NoCopy
    /\ data_ref = 0
    /\ call = NoCall
    /\ engine = <<>>
    /\ cache = NoCache

InitDiagram == InitCover /\ InitLocals /\ InitBuilt /\ pc = "ready"

NextDiagram == ID_Call \/ ID_Pop \/ ID_Pass \/ ID_NextOrbit

\* the call runs to its end: no step of interval_diagram waits for anything
SpecDiagram == InitDiagram /\ [][NextDiagram]_vars /\ WF_vars(NextDiagram)

(***************************************************************************)
(* C1.  interval_diagram terminates for every cover whose monodromies are  *)
(* bijections: no pass raises (the copy removed from the pending set is    *)
(* always present, list.index always finds the copy), a covering orbit     *)
(* makes at most degree passes before it returns to its first copy, the    *)
(* call reaches its return, and then every copy is the start of a pass in  *)
(* exactly one covering orbit of each base orbit.                          *)
(***************************************************************************)
PassStartsOf(k) == {n \in 1..Len(starts) : starts[n].orbit = k}

StartsOnce(k, c) ==
    /\ Cardinality({n \in PassStartsOf(k) :
                      \E q \in 1..Len(starts[n].passes) : starts[n].passes[q] = c}) = 1
    /\ \A n \in PassStartsOf(k) :
          Cardinality({q \in 1..Len(starts[n].passes) : starts[n].passes[q] = c}) <= 1

C1_Safe ==
    /\ pc # "raised"
    /\ \A n \in 1..Len(starts) : Len(starts[n].passes) <= degree
    /\ pc = "done" =>
          /\ Len(singularities) = Len(starts)
          /\ \A k \in 1..Len(base_diagram) : \A c \in Copies(degree) : StartsOnce(k, c)
          /\ \A n \in 1..Len(starts) :
                /\ starts[n].passes # <<>>
                /\ Len(singularities[n]) =
                      Len(starts[n].passes) * Len(base_diagram[starts[n].orbit])

C1_IntervalDiagramCloses == [](C1_Safe) /\ <>(pc = "done")

\* a finished call in which some covering orbit needed several passes and
\* some base orbit lifted to several covering orbits
C1_Witness ==
    /\ pc = "done"
    /\ \E n \in 1..Len(starts) : Len(starts[n].passes) >= 2
    /\ \E n, m \in 1..Len(starts) : n # m /\ starts[n].orbit = starts[m].orbit

(***************************************************************************)
(* Permutations of 1..degree, as covering_data(label, list=False) builds   *)
(* them (the permutation objects profile() multiplies).                    *)
(***************************************************************************)
\* lines 131-132: perm = [i+1 for i in perm]; Permutation(perm)
SagePermutation(perm) == [i \in 1 .. Cardinality(DOMAIN perm) |-> perm[i - 1] + 1]

\* line 231: Permutations(degree).identity()
SageIdentity(deg) == [i \in 1..deg |-> i]

\* p*q: p is applied first, then q
SageMul(p, q) == [i \in DOMAIN p |-> q[p[i]]]

\* q.inverse()
SageInverse(q) == [i \in DOMAIN q |-> CHOOSE k \in DOMAIN q : q[k] = i]

\* the cycle of x under p
RECURSIVE CycleFrom(_, _, _)
CycleFrom(p, x, seen) ==
    IF x \in seen THEN seen ELSE CycleFrom(p, p[x], seen \cup {x})

Cycles(p) == {CycleFrom(p, x, {}) : x \in DOMAIN p}

\* sorted(s, reverse=True), by insertion
RECURSIVE InsertDesc(_, _)
InsertDesc(s, x) ==
    IF s = <<>> THEN <<x>>
    ELSE IF x >= s[1] THEN <<x>> \o s
    ELSE <<s[1]>> \o InsertDesc(Tail(s), x)

RECURSIVE SortedDesc(_)
SortedDesc(s) == IF s = <<>> THEN <<>> ELSE InsertDesc(SortedDesc(Tail(s)), s[1])

\* the elements of a set of sets, as the sequence of their sizes
RECURSIVE Sizes(_)
Sizes(S) ==
    IF S = {} THEN <<>>
    ELSE LET c == CHOOSE c \in S : TRUE IN <<Cardinality(c)>> \o Sizes(S \ {c})

\* p.cycle_type(): the lengths of the cycles of p, as a partition
CycleType(p) == SortedDesc(Sizes(Cycles(p)))

RECURSIVE SeqSum(_)
SeqSum(s) == IF s = <<>> THEN 0 ELSE s[1] + SeqSum(Tail(s))

(***************************************************************************)
(* profile(), cover.py lines 204-247.                                      *)
(***************************************************************************)
\* lines 233-238: the entries of the orbit, glued pairs opened
RECURSIVE FlatOrbit(_)
FlatOrbit(orbit) ==
    IF orbit = <<>> THEN <<>> ELSE orbit[1] \o FlatOrbit(Tail(orbit))

\* lines 241-242: the permutation of one visited label
VisitedPerm_never_inverted(b, pm, lab, sg) == SagePermutation(PermOf(b, pm, lab))

VisitedPerm(b, pm, lab, sg) ==
    IF sg # 0 THEN SageInverse(SagePermutation(PermOf(b, pm, lab)))
    ELSE SagePermutation(PermOf(b, pm, lab))

\* lines 239-243: the product of the monodromies along the orbit
RECURSIVE OrbitProduct(_, _, _, _)
OrbitProduct(b, pm, flat, p) ==
    IF flat = <<>> THEN p
    ELSE OrbitProduct(b, pm, Tail(flat),
                      SageMul(p, VisitedPerm(b, pm, flat[1][1], flat[1][2])))

\* lines 244-245: one entry per cycle
RECURSIVE Scaled(_, _)
Scaled(n, s) == IF s = <<>> THEN <<>> ELSE <<n * s[1]>> \o Scaled(n, Tail(s))

RECURSIVE ProfileEntries(_, _, _, _)
ProfileEntries(b, deg, pm, diagram) ==
    IF diagram = <<>> THEN <<>>
    ELSE Scaled(Len(diagram[1]),
                CycleType(OrbitProduct(b, pm, FlatOrbit(diagram[1]), SageIdentity(deg))))
         \o ProfileEntries(b, deg, pm, Tail(diagram))

\* line 247
Profile(b, deg, pm) == SortedDesc(ProfileEntries(b, deg, pm, BaseIntervalDiagram(b, TRUE)))

(***************************************************************************)
(* is_orientable(), cover.py lines 273-298.  A sign table is a list over   *)
(* the copies holding +1, -1 or None (written 0).                          *)
(***************************************************************************)
RowRanks(b, i) == {Rank(b, Row(b, i)[k]) : k \in 1..Len(Row(b, i))}

\* lines 284-286: the ranks of the labels that lie on one side only
InvLetters_union(b) == RowRanks(b, 0) \cup RowRanks(b, 1)

InvLetters(b) == (RowRanks(b, 0) \ RowRanks(b, 1)) \cup (RowRanks(b, 1) \ RowRanks(b, 0))

\* lines 291-297: the for loop over the inverting letters still to visit, for
\* the copy i of sign s; letters are visited in increasing rank
RECURSIVE VisitLetters(_, _, _, _, _, _)
VisitLetters(pm, letters, i, s, signs, todo) ==
    IF letters = {} THEN [conflict |-> FALSE, signs |-> signs, todo |-> todo]
    ELSE LET j == CHOOSE j \in letters : \A k \in letters : j <= k
             ii == pm[j + 1][i]
         IN IF signs[ii] = 0
            THEN VisitLetters(pm, letters \ {j}, i, s,
                              [signs EXCEPT ![ii] = -s], Append(todo, ii))
            ELSE IF signs[ii] # -s
            THEN [conflict |-> TRUE, signs |-> signs, todo |-> todo]
            ELSE VisitLetters(pm, letters \ {j}, i, s, signs, todo)

\* lines 287-298: the while loop; todo.pop() takes the last element
RECURSIVE Propagate(_, _, _, _)
Propagate(pm, inv, signs, todo) ==
    IF todo = <<>> THEN TRUE
    ELSE LET i == Last(todo)
             r == VisitLetters(pm, inv, i, signs[i], signs, Front(todo))
         IN IF r.conflict THEN FALSE ELSE Propagate(pm, inv, r.signs, r.todo)

HasOdd(s) == \E k \in 1..Len(s) : s[k] % 2 # 0

\* lines 274-277 without the test of the profile
IsOrientable_parity_ignored(b, deg, pm) ==
    IF b.kind = "IET" THEN TRUE
    ELSE Propagate(pm, InvLetters(b), [c \in Copies(deg) |-> IF c = 0 THEN 1 ELSE 0], <<0>>)

IsOrientable(b, deg, pm) ==
    IF b.kind = "IET" THEN TRUE
    ELSE IF HasOdd(Profile(b, deg, pm)) THEN FALSE
    ELSE Propagate(pm, InvLetters(b), [c \in Copies(deg) |-> IF c = 0 THEN 1 ELSE 0], <<0>>)

(***************************************************************************)
(* genus(), cover.py lines 342-343.  Integer(x) raises TypeError when the  *)
(* rational x is not an integer.                                           *)
(***************************************************************************)
Genus_entries_counted_once(b, deg, pm) ==
    LET p == Profile(b, deg, pm)
        num == SeqSum(p) - Len(p)
    IN IF num % 4 = 0
       THEN [status |-> "ok", val |-> (num \div 4) + 1]
       ELSE [status |-> "TypeError", val |-> 0]

Genus(b, deg, pm) ==
    LET p == Profile(b, deg, pm)
        num == SeqSum(p) - 2 * Len(p)
    IN IF num % 4 = 0
       THEN [status |-> "ok", val |-> (num \div 4) + 1]
       ELSE [status |-> "TypeError", val |-> 0]

(***************************************************************************)
(* rel_homology_generator() and rel_homology_index(d, a), lines 658-678.   *)
(***************************************************************************)
\* line 663: [(d,a) for d in range(degree) for a in alphabet]
RECURSIVE GeneratorFrom(_, _, _)
GeneratorFrom(b, deg, c) ==
    IF c >= deg THEN <<>>
    ELSE [k \in 1..Len(Alphabet(b)) |-> <<c, Alphabet(b)[k]>>] \o GeneratorFrom(b, deg, c + 1)

rel_homology_generator(b, deg) == GeneratorFrom(b, deg, 0)

\* lines 677-678
rel_homology_index_copy_minor(b, deg, c, a) == Rank(b, a) * deg + c

rel_homology_index(b, deg, c, a) == c * Len(Alphabet(b)) + Rank(b, a)

(***************************************************************************)
(* The derived invariants of a cover, one call at a time.                  *)
(***************************************************************************)
\* the index list [l1, l2, ...] as a python list indexed from 0
FromList(l) == [i \in 0 .. (Len(l) - 1) |-> l[i + 1]]

\* covers of the doctests whose degree lies beyond MaxDegree
\* (lines 213-219): p = iet.Permutation('a b', 'b a'),
\* p.cover(['(1,2,3)','(1,4)']) and p.cover(['(1,2,3)(4,5,6)','(1,4,7)(2,5)(3,6)'])
DoctestCovers ==
    { [base |-> IET_ab, degree |-> 4,
       permut |-> <<FromList(<<1, 2, 0, 3>>), FromList(<<3, 1, 2, 0>>)>>],
      [base |-> IET_ab, degree |-> 7,
       permut |-> <<FromList(<<1, 2, 0, 4, 5, 3, 6>>), FromList(<<3, 4, 5, 6, 1, 2, 0>>)>>] }

InitDoctestCover ==
    \E c \in DoctestCovers : base = c.base /\ degree = c.degree /\ permut = c.permut

Returns(op, arg, status, val) ==
    /\ pc' = "returned"
    /\ ret' = [op |-> op, arg |-> arg, status |-> status, val |-> val]
    /\ UNCHANGED <<base, degree, permut>>
    /\ UNCHANGED diagVars
    /\ UNCHANGED ctorVars
    /\ UNCHANGED lyapVars
    /\ UNCHANGED cache

Call_profile ==
    /\ pc = "ready"
    /\ Returns("profile", <<>>, "ok", Profile(base, degree, permut))

Call_is_orientable ==
    /\ pc = "ready"
    /\ Returns("is_orientable", <<>>, "ok", IsOrientable(base, degree, permut))

Call_genus ==
    /\ pc = "ready"
    /\ \E g \in {Genus(base, degree, permut)} : Returns("genus", <<>>, g.status, g.val)

Call_rel_homology_index ==
    /\ pc = "ready"
    /\ \E c \in Copies(degree) : \E k \in 1..Len(Alphabet(base)) :
          Returns("rel_homology_index", <<c, Alphabet(base)[k]>>, "ok",
                  rel_homology_index(base, degree, c, Alphabet(base)[k]))

\* covers of 'a a b' / 'b c c' of the next degree that are trivial over b, the
\* label lying on both sides
InitNextDegreeCover ==
    /\ base = GP_aab
    /\ degree = MaxDegree + 1
    /\ \E pa, pc2 \in Perms(MaxDegree + 1) :
          permut = <<pa, [c \in Copies(MaxDegree + 1) |-> c], pc2>>

InitInvariants ==
    /\ InitCover \/ InitDoctestCover \/ InitNextDegreeCover
    /\ InitLocals
    /\ InitBuilt
    /\ pc = "ready"

NextInvariants == Call_profile \/ Call_is_orientable \/ Call_genus \/ Call_rel_homology_index

SpecInvariants == InitInvariants /\ [][NextInvariants]_vars

(***************************************************************************)
(* C3.  rel_homology_generator()[rel_homology_index(d, a)] = (d, a) for    *)
(* every copy d and every label a: the index is a bijection from the       *)
(* (copy, label) pairs onto 0..degree*|alphabet|-1, inverse to the order   *)
(* of the list (python position k is element k+1 of the sequence).         *)
(***************************************************************************)
C3_RoundTrip ==
    (pc = "returned" /\ ret.op = "rel_homology_index") =>
        LET g == rel_homology_generator(base, degree)
        IN /\ Len(g) = degree * Len(Alphabet(base))
           /\ ret.val \in 0 .. (Len(g) - 1)
           /\ g[ret.val + 1] = ret.arg

\* an index asked for a copy and a label that are both not the first, in a
\* cover whose degree differs from the size of its alphabet
C3_Witness ==
    /\ pc = "returned"
    /\ ret.op = "rel_homology_index"
    /\ ret.arg[1] >= 1
    /\ Rank(base, ret.arg[2]) >= 1
    /\ degree # Len(Alphabet(base))

(***************************************************************************)
(* Reachability among the copies under the monodromies of a set of ranks.  *)
(***************************************************************************)
RECURSIVE ReachedFrom(_, _, _)
ReachedFrom(pm, ranks, S) ==
    LET T == S \cup {pm[j + 1][c] : j \in ranks, c \in S}
    IN IF T = S THEN S ELSE ReachedFrom(pm, ranks, T)

\* the cover is connected: the monodromies act transitively on the copies
Transitive(b, deg, pm) ==
    ReachedFrom(pm, 0 .. (Len(Alphabet(b)) - 1), {0}) = Copies(deg)

(***************************************************************************)
(* C4 as stated: for every cover, sum(profile) - 2*len(profile) is         *)
(* divisible by 4 and genus() is a non-negative integer.                   *)
(***************************************************************************)
C4_GenusNonNegative ==
    (pc = "returned" /\ ret.op = "genus") =>
        /\ (SeqSum(Profile(base, degree, permut)) - 2 * Len(Profile(base, degree, permut))) % 4 = 0
        /\ ret.status = "ok"
        /\ ret.val >= 0

(***************************************************************************)
(* C4 as amended: for every cover, sum(profile) - 2*len(profile) is        *)
(* divisible by 4 and genus() is the integer (sum - 2*len)/4 + 1 (the      *)
(* conversion never fails); it is non-negative when the monodromies act    *)
(* transitively on the copies.                                             *)
(***************************************************************************)
C4_GenusInteger ==
    (pc = "returned" /\ ret.op = "genus") =>
        LET p == Profile(base, degree, permut)
        IN /\ (SeqSum(p) - 2 * Len(p)) % 4 = 0
           /\ ret.status = "ok"
           /\ 4 * (ret.val - 1) = SeqSum(p) - 2 * Len(p)
           /\ Transitive(base, degree, permut) => ret.val >= 0

\* genus() of a connected cover of genus at least 2 with several cone points
C4_Witness ==
    /\ pc = "returned"
    /\ ret.op = "genus"
    /\ Transitive(base, degree, permut)
    /\ ret.val >= 2
    /\ Len(Profile(base, degree, permut)) >= 2

(***************************************************************************)
(* C5.  If is_orientable() returns true, every entry of profile() is even, *)
(* for a base of the interval-exchange kind and of the general kind.       *)
(***************************************************************************)
C5_OrientableEvenProfile ==
    (pc = "returned" /\ ret.op = "is_orientable" /\ ret.val) =>
        ~HasOdd(Profile(base, degree, permut))

\* an orientable cover of a general-kind base
C5_Witness ==
    /\ pc = "returned"
    /\ ret.op = "is_orientable"
    /\ ret.val
    /\ base.kind = "GP"

(***************************************************************************)
(* The copy reached from c by following a flattened base orbit: each       *)
(* visited label moves the copy by its monodromy, by the inverse on a      *)
(* signed occurrence.                                                      *)
(***************************************************************************)
RECURSIVE FollowCopy(_, _, _, _)
FollowCopy(b, pm, flat, c) ==
    IF flat = <<>> THEN c
    ELSE FollowCopy(b, pm, Tail(flat), CrossCopy(PermOf(b, pm, flat[1][1]), flat[1][2], c))

RECURSIVE CopyCycle(_, _, _, _, _)
CopyCycle(b, pm, flat, c, seen) ==
    IF c \in seen THEN seen
    ELSE CopyCycle(b, pm, flat, FollowCopy(b, pm, flat, c), seen \cup {c})

\* the cone points over the base orbits: pairs (base orbit, cycle of copies)
ConePoints(b, deg, pm) ==
    LET dg == BaseIntervalDiagram(b, TRUE)
    IN UNION {{<<k, CopyCycle(b, pm, FlatOrbit(dg[k]), c, {})>> : c \in Copies(deg)} :
              k \in 1..Len(dg)}

ConeAngle(b, point) == Len(BaseIntervalDiagram(b, TRUE)[point[1]]) * Cardinality(point[2])

Descending(s) == \A k \in 1 .. (Len(s) - 1) : s[k] >= s[k + 1]

Occurs(s, v) == Cardinality({k \in 1..Len(s) : s[k] = v})

ProfileIsConeAngles(b, deg, pm, prof) ==
    /\ Descending(prof)
    /\ Len(prof) = Cardinality(ConePoints(b, deg, pm))
    /\ \A v \in {ConeAngle(b, x) : x \in ConePoints(b, deg, pm)} \cup Range(prof) :
          Occurs(prof, v) = Cardinality({x \in ConePoints(b, deg, pm) : ConeAngle(b, x) = v})

\* the scenarios: monodromies in cycle notation on 1..degree, as index lists
Scenario_ab_12_13 ==
    base = IET_ab /\ degree = 3
    /\ permut = <<FromList(<<1, 0, 2>>), FromList(<<2, 1, 0>>)>>

Scenario_ab_123_14 ==
    base = IET_ab /\ degree = 4
    /\ permut = <<FromList(<<1, 2, 0, 3>>), FromList(<<3, 1, 2, 0>>)>>

Scenario_abc_12_13_23 ==
    base = IET_abc /\ degree = 3
    /\ permut = <<FromList(<<1, 0, 2>>), FromList(<<2, 1, 0>>), FromList(<<0, 2, 1>>)>>

(***************************************************************************)
(* C6 as stated: profile() is, in descending order, one entry              *)
(* len(base orbit)*l per base orbit and per cycle of length l of the       *)
(* composed monodromy; 'a b'/'b a' with (1,2),(1,3) gives [6], with        *)
(* (1,2,3),(1,4) gives [6,2], and 'a b c'/'c b a' with (1,2),(1,3),(2,3)   *)
(* gives [6].                                                              *)
(***************************************************************************)
C6_ProfileAsStated ==
    (pc = "returned" /\ ret.op = "profile") =>
        /\ ProfileIsConeAngles(base, degree, permut, ret.val)
        /\ Scenario_ab_12_13 => ret.val = <<6>>
        /\ Scenario_ab_123_14 => ret.val = <<6, 2>>
        /\ Scenario_abc_12_13_23 => ret.val = <<6>>

(***************************************************************************)
(* C6 as amended: the same, except that 'a b c'/'c b a' with               *)
(* (1,2),(1,3),(2,3) gives [4,4,2,2].                                      *)
(***************************************************************************)
C6_Profile ==
    (pc = "returned" /\ ret.op = "profile") =>
        /\ ProfileIsConeAngles(base, degree, permut, ret.val)
        /\ Scenario_ab_12_13 => ret.val = <<6>>
        /\ Scenario_ab_123_14 => ret.val = <<6, 2>>
        /\ Scenario_abc_12_13_23 => ret.val = <<4, 4, 2, 2>>

\* the profile of the cover of 'a b c'/'c b a'
C6_Witness ==
    /\ pc = "returned"
    /\ ret.op = "profile"
    /\ Scenario_abc_12_13_23
    /\ Len(ret.val) = 4

(***************************************************************************)
(* C7.  For a general-kind base, is_orientable() is false when some        *)
(* profile entry is odd, and otherwise true exactly when the copies        *)
(* reached from copy 0 through the inverting labels carry signs, +1 on     *)
(* copy 0, such that the monodromy of every inverting label sends every    *)
(* reached copy to a copy of the opposite sign.  Over 'a a b'/'b c c' on   *)
(* 2 copies the only orientable cover with a non-identity monodromy is     *)
(* (1,2),(),(1,2), of genus 1; (1,2),(1,2),(1,2) is non-orientable of      *)
(* genus 0.                                                                *)
(***************************************************************************)
SignsExist(b, deg, pm) ==
    LET R == ReachedFrom(pm, InvLetters(b), {0})
    IN \E f \in [R -> {1, -1}] :
          /\ f[0] = 1
          /\ \A i \in R : \A j \in InvLetters(b) : f[pm[j + 1][i]] = -f[i]

Swap2 == FromList(<<1, 0>>)

Id2 == FromList(<<0, 1>>)

C7_OrientableGeneral ==
    /\ (pc = "returned" /\ ret.op = "is_orientable" /\ base.kind = "GP") =>
          /\ ret.val = (~HasOdd(Profile(base, degree, permut)) /\ SignsExist(base, degree, permut))
          /\ (base = GP_aab /\ degree = 2 /\ permut # <<Id2, Id2, Id2>>) =>
                (ret.val = (permut = <<Swap2, Id2, Swap2>>))
    /\ (pc = "returned" /\ ret.op = "genus" /\ base = GP_aab /\ degree = 2) =>
          /\ permut = <<Swap2, Id2, Swap2>> => (ret.status = "ok" /\ ret.val = 1)
          /\ permut = <<Swap2, Swap2, Swap2>> => (ret.status = "ok" /\ ret.val = 0)

\* a cover whose profile is even and whose sign propagation meets a conflict
C7_Witness ==
    /\ pc = "returned"
    /\ ret.op = "is_orientable"
    /\ base.kind = "GP"
    /\ ~HasOdd(Profile(base, degree, permut))
    /\ ret.val = FALSE

(***************************************************************************)
(* Construction and copy, cover.py lines 54-60 and 94-96, with the python  *)
(* lists as objects: a list of integers lives at an address of the heap,   *)
(* and a list of lists holds addresses.  The holders are the caller's      *)
(* argument ("arg"), self._permut_cover of the cover ("self") and          *)
(* _permut_cover of its copy ("copy").  In these runs permut is the value  *)
(* of self._permut_cover: the lists its addresses point to.                *)
(***************************************************************************)
NoBase == [kind |-> "none", top |-> <<>>, bot |-> <<>>, irreducible |-> FALSE]

\* base.is_irreducible(): for the interval-exchange kind, no proper prefix of
\* the top row carries the labels of the same prefix of the bottom row; for
\* the general kind, the verdict recorded with the base
is_irreducible(b) ==
    IF b.kind = "IET"
    THEN \A k \in 1 .. (Len(b.top) - 1) :
            {b.top[q] : q \in 1..k} # {b.bot[q] : q \in 1..k}
    ELSE b.irreducible

\* lines 59-60
ConstructFails_never(b) == FALSE

ConstructFails(b) == ~is_irreducible(b)

\* copy(l) of a list of lists: a new list holding the same elements
CopyList(addrs) == addrs

\* the lists of integers a list of lists points to
Deref(h, addrs) == [k \in 1..Len(addrs) |-> h[addrs[k]]]

\* the lists of integers of a caller
CallerLists ==
    UNION {[Copies(n) -> Copies(MaxListLen)] : n \in 1..MaxListLen}

InitCtor ==
    /\ args \in [base : {IET_ab, IET_reducible}, degree : 1..MaxListLen]
    /\ \E m \in 1..Len(Alphabet(args.base)) :
          /\ heap \in [1..m -> CallerLists]
          /\ lists = [arg |-> [k \in 1..m |-> k], self |-> <<>>, copy |-> <<>>]
    /\ copied = NoCopy
    /\ data_ref = 0
    /\ base = NoBase
    /\ degree = 0
    /\ permut = <<>>
    /\ call = NoCall
    /\ engine = <<>>
    /\ cache = NoCache
    /\ InitLocals
    /\ pc = "new"

\* lines 54-60: PermutationCover(base, degree, permut)
Construct ==
    /\ pc = "new"
    /\ IF ConstructFails(args.base)
       THEN /\ pc' = "raised"
            /\ ret' = [op |-> "__init__", arg |-> <<>>, status |-> "ValueError", val |-> <<>>]
            /\ UNCHANGED <<base, degree, permut, lists>>
       ELSE /\ pc' = "built"
            /\ base' = args.base
            /\ degree' = args.degree
            /\ lists' = [lists EXCEPT !.self = CopyList(lists.arg)]
            /\ permut' = Deref(heap, lists'.self)
            /\ ret' = [op |-> "__init__", arg |-> <<>>, status |-> "ok", val |-> <<>>]
    /\ UNCHANGED <<args, heap, copied, data_ref>>
    /\ UNCHANGED diagVars
    /\ UNCHANGED lyapVars
    /\ UNCHANGED cache

\* lines 94-96: __copy__, which goes through __init__ with a base that has
\* passed the test of line 59 already
CopyCover ==
    /\ pc = "built"
    /\ ~copied.made
    /\ lists' = [lists EXCEPT !.copy = CopyList(CopyList(lists.self))]
    /\ copied' = [made |-> TRUE, base |-> base, degree |-> degree]
    /\ ret' = [op |-> "__copy__", arg |-> <<>>, status |-> "ok", val |-> <<>>]
    /\ UNCHANGED <<base, degree, permut, pc, args, heap, data_ref>>
    /\ UNCHANGED diagVars
    /\ UNCHANGED lyapVars
    /\ UNCHANGED cache

\* lines 125-128: covering_data(label, list=True)
CoveringDataList ==
    /\ pc = "built"
    /\ \E k \in 1..Len(Alphabet(base)) :
          IF k <= Len(lists.self)
          THEN /\ data_ref' = lists.self[k]
               /\ ret' = [op |-> "covering_data", arg |-> <<Alphabet(base)[k]>>,
                          status |-> "ok", val |-> heap[lists.self[k]]]
          ELSE /\ data_ref' = data_ref
               /\ ret' = [op |-> "covering_data", arg |-> <<Alphabet(base)[k]>>,
                          status |-> "IndexError", val |-> <<>>]
    /\ UNCHANGED <<base, degree, permut, pc, args, heap, lists, copied>>
    /\ UNCHANGED diagVars
    /\ UNCHANGED lyapVars
    /\ UNCHANGED cache

\* the addresses a caller reaches through the argument it passed, through the
\* copy, and through the list covering_data returned
Reaches(via) ==
    IF via = "arg" THEN Range(lists.arg)
    ELSE IF via = "copy" THEN Range(lists.copy)
    ELSE IF data_ref = 0 THEN {} ELSE {data_ref}

\* a caller changes an entry of a list of integers in place: l[i] = v
CallerSetsEntry ==
    /\ pc = "built"
    /\ \E via \in {"arg", "copy", "data"} : \E a \in Reaches(via) :
       \E i \in DOMAIN heap[a] : \E v \in Copies(MaxListLen) :
          /\ v # heap[a][i]
          /\ heap' = [heap EXCEPT ![a] = [@ EXCEPT ![i] = v]]
          /\ ret' = [op |-> "setitem", arg |-> <<via, "entry">>, status |-> "ok", val |-> <<>>]
    /\ permut' = Deref(heap', lists.self)
    /\ pc' = "mutated"
    /\ UNCHANGED <<base, degree, args, lists, copied, data_ref>>
    /\ UNCHANGED diagVars
    /\ UNCHANGED lyapVars
    /\ UNCHANGED cache

\* a caller replaces an element of a list of lists in place: L[k] = new list
CallerSetsList ==
    /\ pc = "built"
    /\ \E via \in {"arg", "copy"} : \E k \in 1..Len(lists[via]) : \E l \in CallerLists :
          /\ l # heap[lists[via][k]]
          /\ heap' = Append(heap, l)
          /\ lists' = [lists EXCEPT ![via] = [@ EXCEPT ![k] = Len(heap) + 1]]
          /\ ret' = [op |-> "setitem", arg |-> <<via, "list">>, status |-> "ok", val |-> <<>>]
    /\ permut' = Deref(heap', lists'.self)
    /\ pc' = "mutated"
    /\ UNCHANGED <<base, degree, args, copied, data_ref>>
    /\ UNCHANGED diagVars
    /\ UNCHANGED lyapVars
    /\ UNCHANGED cache

NextCtor == Construct \/ CopyCover \/ CoveringDataList \/ CallerSetsEntry \/ CallerSetsList

SpecCtor == InitCtor /\ [][NextCtor]_vars

\* the data model: one bijection of 0..degree-1 per label of the base
ValidMonodromy(b, deg, pm) ==
    /\ Len(pm) = Len(Alphabet(b))
    /\ \A k \in 1..Len(pm) : IsBijectionOfSize(pm[k], deg)

(***************************************************************************)
(* C8 as stated: construction fails when the base is not irreducible, and  *)
(* every cover it returns has, for every label of the base, a monodromy    *)
(* that is a bijection of 0..degree-1.                                     *)
(***************************************************************************)
C8_ConstructionValidates ==
    /\ ~is_irreducible(args.base) => pc \in {"new", "raised"}
    /\ pc = "built" => ValidMonodromy(base, degree, permut)

(***************************************************************************)
(* C8 as amended: construction fails exactly when the base is not          *)
(* irreducible; a cover it returns holds the base and the degree it was    *)
(* given and a list with the elements of the monodromy list it was given,  *)
(* whatever they are: the monodromy is not validated.                      *)
(***************************************************************************)
C8_ConstructionChecksBase ==
    /\ ~is_irreducible(args.base) => pc \in {"new", "raised"}
    /\ pc = "raised" => (~is_irreducible(args.base) /\ ret.status = "ValueError")
    /\ pc = "built" =>
          /\ base = args.base
          /\ degree = args.degree
          /\ lists.self = lists.arg
          /\ permut = Deref(heap, lists.arg)

\* a cover returned with a monodromy that is no bijection of 0..degree-1
C8_Witness ==
    /\ pc = "built"
    /\ ret.op = "__init__"
    /\ ~ValidMonodromy(base, degree, permut)

(***************************************************************************)
(* C9.  The copy has the fields of the cover, and an in-place change of    *)
(* the monodromy lists of the copy, of the constructor argument, or of a   *)
(* list returned by covering_data(label, list=True) leaves the monodromy   *)
(* of the other cover unchanged.                                           *)
(***************************************************************************)
C9_CopiesByValue ==
    [][ /\ (copied'.made /\ ~copied.made) =>
              /\ copied'.base = base /\ copied'.degree = degree
              /\ Deref(heap', lists'.copy) = permut
        /\ (pc' = "mutated" /\ pc = "built" /\ ret'.arg[1] \in {"arg", "copy"}) =>
              permut' = permut
        /\ (pc' = "mutated" /\ pc = "built" /\ ret'.arg[1] = "data" /\ copied.made) =>
              Deref(heap', lists'.copy) = Deref(heap, lists.copy)
      ]_vars

(***************************************************************************)
(* lyapunov_exponents_H_plus(), cover.py lines 358-559, called with        *)
(* isotypic_decomposition=False and output to stdout.  The text written    *)
(* when verbose is set is not part of the state.                           *)
(***************************************************************************)
\* a python list as a sequence
RECURSIVE ToSeq(_)
ToSeq(l) ==
    IF DOMAIN l = {} THEN <<>>
    ELSE LET top == Cardinality(DOMAIN l) - 1
         IN Append(ToSeq([x \in 0 .. (top - 1) |-> l[x]]), l[top])

\* line 455: sum(self._permut_cover, [])
RECURSIVE sum_lists(_)
sum_lists(pm) ==
    IF pm = <<>> THEN <<>> ELSE ToSeq(pm[1]) \o sum_lists(Tail(pm))

\* lines 464-468: the outcome of the validation
Validate_iterations_unchecked(nb_vectors, nb_experiments, nb_iterations, sigma, n) ==
    IF nb_vectors < 0 THEN "ValueError"
    ELSE IF nb_vectors = 0 THEN "empty"
    ELSE IF nb_experiments <= 0 THEN "ValueError"
    ELSE IF Len(sigma) % n # 0 THEN "ValueError"
    ELSE "ok"

Validate(nb_vectors, nb_experiments, nb_iterations, sigma, n) ==
    IF nb_vectors < 0 THEN "ValueError"
    ELSE IF nb_vectors = 0 THEN "empty"
    ELSE IF nb_experiments <= 0 THEN "ValueError"
    ELSE IF nb_iterations <= 0 THEN "ValueError"
    ELSE IF Len(sigma) % n # 0 THEN "ValueError"
    ELSE "ok"

\* convert((i,j)) with the length of the bottom row for k
convert_by_bottom_row(b, i, j) == j + i * Len(b.bot)

\* lines 472-474: convert((i,j)) with k = len(self[0])
convert(b, i, j) == j + i * Len(b.top)

\* the occurrences in the order of the loops of lines 481-482
Occurrences(b) ==
    [x \in 1 .. (Len(b.top) + Len(b.bot)) |->
        IF x <= Len(b.top) THEN <<0, x - 1>> ELSE <<1, x - 1 - Len(b.top)>>]

\* line 484-487: the flat index of the twin; the twin of an interval
\* exchange is held as a position of the other row, the twin of a general
\* permutation as a pair
TwinIndex(b, i, j) ==
    LET t == BaseTwin(b, i, j)
    IN IF b.kind = "IET" THEN convert(b, 1 - i, t[2]) ELSE convert(b, t[1], t[2])

\* lines 476-487: the tables gp and twin; a store outside range(2*n) raises
RECURSIVE Encode(_, _, _)
Encode(b, occs, tables) ==
    IF occs = <<>> \/ tables.status # "ok" THEN tables
    ELSE LET i == occs[1][1]
             j == occs[1][2]
             x == convert(b, i, j)
         IN IF x \notin DOMAIN tables.gp
            THEN [tables EXCEPT !.status = "IndexError"]
            ELSE Encode(b, Tail(occs),
                        [tables EXCEPT !.gp[x] = Rank(b, LabelAt(b, i, j)),
                                       !.twin[x] = TwinIndex(b, i, j)])

EngineTables(b) ==
    LET idx == [x \in 0 .. (2 * BaseLen(b) - 1) |-> x]
    IN Encode(b, Occurrences(b), [gp |-> idx, twin |-> idx, status |-> "ok"])

\* the covers of the calls: those of the data model, and covers whose
\* monodromy table lacks a list or holds a list that is too long (the
\* constructor accepts them)
LyapBases == {IET_ab, GP_aab, GP_aabbc}

Malformed(b, deg) ==
    {Front(pm) : pm \in Monodromies(b, deg)}
    \cup {[pm EXCEPT ![Len(pm)] = [c \in Copies(deg + 1) |-> c]] : pm \in Monodromies(b, deg)}

InitLyap ==
    /\ base \in LyapBases
    /\ degree \in 1..MaxListLen
    /\ permut \in Monodromies(base, degree) \cup Malformed(base, degree)
    /\ InitLocals
    /\ InitBuilt
    /\ pc = "ready"

\* the starting lengths a caller supplies, in halves
CallerLengths(b) == {None, [k \in 1..BaseLen(b) |-> 2 * k + 1]}

\* the values the call returns: a python list of exponents, or the tuple
\* (lexp, res_final)
ExponentList(l) == [type |-> "list", speed |-> None, exponents |-> l]

SpeedAndExponents(lexp, l) == [type |-> "tuple", speed |-> lexp, exponents |-> l]

\* line 491: lengths = map(int, lengths).  The lengths of a caller are
\* numbers counted in halves (3 stands for 1.5); int() drops the fraction.
IntLengths(lengths) == [k \in DOMAIN lengths |-> lengths[k] \div 2]

\* lines 440-491: defaults, validation and encoding.  The default
\* nb_vectors is taken on covers of the data model.
Lyap_Call ==
    /\ pc = "ready"
    /\ \E nbv \in {<<v>> : v \in -1 .. MaxVectors} \cup {None} :
       \E nbe \in 0 .. MaxExperiments : \E nbi \in 0 .. MaxIterations :
       \E lens \in CallerLengths(base) : \E rs \in BOOLEAN : \E vb \in BOOLEAN :
       \E g \in {IF nbv # None THEN [status |-> "ok", val |-> nbv[1]]
                 ELSE IF ValidMonodromy(base, degree, permut)
                      THEN Genus(base, degree, permut)
                      ELSE [status |-> "none", val |-> 0]} :
          /\ g.status # "none"
          /\ LET sigma == sum_lists(permut)
                 n == BaseLen(base)
                 given == [made |-> TRUE, nb_vectors |-> nbv, nb_experiments |-> nbe,
                           nb_iterations |-> nbi, lengths |-> lens, lengths_int |-> None,
                           return_speed |-> rs,
                           verbose |-> vb, sigma |-> sigma, n |-> n,
                           resolved |-> IF g.status = "ok" THEN <<g.val>> ELSE None,
                           gp |-> <<>>, twin |-> <<>>, k |-> 0,
                           dimensions |-> <<>>, projections |-> None]
             IN IF g.status # "ok"
                THEN /\ call' = given
                     /\ pc' = "returned"
                     /\ ret' = [op |-> "lyapunov_exponents_H_plus", arg |-> <<>>,
                                status |-> g.status, val |-> <<>>]
                ELSE LET v == Validate(g.val, nbe, nbi, sigma, n)
                         t == EngineTables(base)
                     IN IF v = "ValueError"
                        THEN /\ call' = given
                             /\ pc' = "returned"
                             /\ ret' = [op |-> "lyapunov_exponents_H_plus", arg |-> <<>>,
                                        status |-> "ValueError", val |-> <<>>]
                        ELSE IF v = "empty"
                        THEN /\ call' = given
                             /\ pc' = "returned"
                             /\ ret' = [op |-> "lyapunov_exponents_H_plus", arg |-> <<>>,
                                        status |-> "ok", val |-> ExponentList(<<>>)]
                        ELSE IF t.status # "ok"
                        THEN /\ call' = given
                             /\ pc' = "returned"
                             /\ ret' = [op |-> "lyapunov_exponents_H_plus", arg |-> <<>>,
                                        status |-> t.status, val |-> <<>>]
                        ELSE /\ call' = [given EXCEPT !.gp = t.gp, !.twin = t.twin,
                                                      !.k = Len(base.top),
                                                      !.dimensions = <<g.val>>,
                                                      !.lengths_int =
                                                          IF lens = None THEN None
                                                          ELSE IntLengths(lens)]
                             /\ pc' = "engine"
                             /\ ret' = ret
    /\ engine' = <<>>
    /\ UNCHANGED <<base, degree, permut>>
    /\ UNCHANGED diagVars
    /\ UNCHANGED ctorVars
    /\ UNCHANGED cache

\* the samples the engine can return: one list of nb_experiments samples for
\* slot 0 and for each of the requested exponents
Samples == {1, 3}

EngineResults(slots, nb_experiments) ==
    [0 .. (slots - 1) -> [1..nb_experiments -> Samples]]

\* mean_and_std_dev(l)[0], as the pair (sum, count)
Mean(l) == <<SeqSum(l), Len(l)>>

\* lines 515-559: the engine call and the aggregation of its samples
Lyap_Engine ==
    /\ pc = "engine"
    /\ \E res \in EngineResults(1 + call.resolved[1], call.nb_experiments) :
          /\ engine' = Append(engine,
                 [gp |-> call.gp, k |-> call.k, twin |-> call.twin, sigma |-> call.sigma,
                  nb_experiments |-> call.nb_experiments,
                  nb_iterations |-> call.nb_iterations,
                  dimensions |-> call.dimensions, projections |-> call.projections,
                  lengths |-> None, verbose |-> call.verbose, returned |-> res])
          /\ LET lexp == Mean(res[0])
                 res_final == [i \in 1..call.resolved[1] |-> Mean(res[i])]
             IN ret' = [op |-> "lyapunov_exponents_H_plus", arg |-> <<>>, status |-> "ok",
                        val |-> IF call.return_speed THEN SpeedAndExponents(lexp, res_final)
                                                      ELSE ExponentList(res_final)]
    /\ pc' = "returned"
    /\ UNCHANGED <<base, degree, permut, call>>
    /\ UNCHANGED diagVars
    /\ UNCHANGED ctorVars
    /\ UNCHANGED cache

NextLyap == Lyap_Call \/ Lyap_Engine

SpecLyap == InitLyap /\ [][NextLyap]_vars

\* nb_vectors after line 457, in a call that has got that far
HasNbVectors == call.made /\ call.resolved # None

NbVectors == call.resolved[1]

\* the call has finished with an exception
LyapFailed == pc = "returned" /\ call.made /\ ret.status # "ok"

\* the engine is invoked at most once, and not in a call that fails or that
\* has nb_vectors = 0
EngineAtMostOnce ==
    /\ Len(engine) <= 1
    /\ LyapFailed => engine = <<>>
    /\ (HasNbVectors /\ NbVectors = 0) => engine = <<>>

Compose(p, q) == [c \in DOMAIN p |-> q[p[c]]]

automorphism_group(deg, pm) ==
    {g \in Perms(deg) : \A k \in 1..Len(pm) : Compose(g, pm[k]) = Compose(pm[k], g)}

(***************************************************************************)
(* The group-theory provider (an external collaborator of cover.py), for   *)
(* abelian groups whose characters have their sums of conjugates in the    *)
(* integers: the exponent of the group is 1, 2, 3, 4 or 6.                 *)
(***************************************************************************)
\* the order of the provider on permutations: by the first copy whose
\* images differ
PermLess(p, q) ==
    \E c \in DOMAIN p : p[c] < q[c] /\ \A x \in DOMAIN p : x < c => p[x] = q[x]

\* libgap.Elements(G): the elements in increasing order
RECURSIVE Elements(_)
Elements(G) ==
    IF G = {} THEN <<>>
    ELSE LET g == CHOOSE x \in G : \A y \in G \ {x} : PermLess(x, y)
         IN <<g>> \o Elements(G \ {g})

RECURSIVE PermPower(_, _)
PermPower(g, k) == IF k = 0 THEN [c \in DOMAIN g |-> c] ELSE Compose(PermPower(g, k - 1), g)

IsAbelian(G) == \A g, h \in G : Compose(g, h) = Compose(h, g)

\* the least e >= 1 with g^e = 1 for every g of G
Exponent(G) ==
    CHOOSE e \in 1 .. (Cardinality(G) + 1) :
        /\ \A g \in G : PermPower(g, e) = PermPower(g, 0)
        /\ \A f \in 1 .. (e - 1) : \E g \in G : PermPower(g, f) # PermPower(g, 0)

Provided(G) == IsAbelian(G) /\ Exponent(G) \in {1, 2, 3, 4, 6}

\* the position of g in the list of elements, from 0
ElementIndex(els, g) == (CHOOSE t \in 1..Len(els) : els[t] = g) - 1

\* libgap.Irr(T): the irreducible characters of an abelian group of exponent
\* e.  A character is a list over the elements; the entry k stands for the
\* root of unity exp(2 i pi k / e).
Irr(G) ==
    LET els == Elements(G)
        e == Exponent(G)
        m == Len(els)
    IN {chi \in [0 .. (m - 1) -> 0 .. (e - 1)] :
           \A s, t \in 0 .. (m - 1) :
               chi[ElementIndex(els, Compose(els[s + 1], els[t + 1]))] = (chi[s] + chi[t]) % e}

\* x.is_real() of the root of unity k
is_real(e, k) == (2 * k) % e = 0

\* z.conjugate()
conjugate(e, chi) == [t \in DOMAIN chi |-> (e - chi[t]) % e]

\* a real root of unity as an integer
RealValue(e, k) == IF k = 0 THEN 1 ELSE -1

\* exp(2 i pi k / e) + its conjugate, for e in {1, 2, 3, 4, 6}
TwoCos(e, k) ==
    IF k = 0 THEN 2
    ELSE IF 2 * k = e THEN -2
    ELSE IF e = 3 THEN -1
    ELSE IF e = 4 THEN 0
    ELSE IF k \in {1, 5} THEN 1 ELSE -1

(***************************************************************************)
(* _characters(), cover.py lines 599-625.                                  *)
(***************************************************************************)
\* set.pop(): the element of the set that comes first in the order the set
\* is held in
PopFrom(order, S) ==
    order[CHOOSE x \in 1..Len(order) : order[x] \in S /\ \A y \in 1 .. (x - 1) : order[y] \notin S]

\* lines 610-622: the fold of the characters into real characters; acc holds
\* real_character_table and the counter i
RECURSIVE RealFold(_, _, _, _, _)
RealFold(e, n_characters, order, character_set, acc) ==
    IF character_set = {} THEN acc
    ELSE LET chi == PopFrom(order, character_set)
             rest == character_set \ {chi}
         IN IF \E t \in DOMAIN chi : ~is_real(e, chi[t])
            THEN IF conjugate(e, chi) \notin rest \/ ~(0 .. (n_characters - 1) \subseteq DOMAIN chi)
                 THEN [acc EXCEPT !.status = IF conjugate(e, chi) \notin rest
                                              THEN "KeyError" ELSE "IndexError"]
                 ELSE RealFold(e, n_characters, order, rest \ {conjugate(e, chi)},
                        [acc EXCEPT !.table = Append(@, [j \in 0 .. (n_characters - 1) |->
                                                             TwoCos(e, chi[j])]),
                                    !.i = @ + 2])
            ELSE RealFold(e, n_characters, order, rest,
                        [acc EXCEPT !.table = Append(@, [j \in DOMAIN chi |->
                                                             RealValue(e, chi[j])]),
                                    !.i = @ + 1])

\* the orders a set of characters can be held in
Orders(S) ==
    {o \in [1..Cardinality(S) -> S] : \A x, y \in 1..Cardinality(S) : o[x] = o[y] => x = y}

\* lines 599-625: the tuple _characters() returns
Characters(deg, pm, order) ==
    LET G == automorphism_group(deg, pm)
        e == Exponent(G)
        els == Elements(G)
        n_characters == Cardinality(Irr(G))
        fold == RealFold(e, n_characters, order, Irr(G),
                         [table |-> <<>>, i |-> 0, status |-> "ok"])
    IN [made |-> TRUE,
        status |-> fold.status,
        character_table |-> fold.table,
        character_degree |-> [x \in 1..n_characters |-> 1],
        automorphism_group_order |-> Len(els),
        automorphism_group_permutation |-> els,
        n_characters |-> Len(fold.table),
        i |-> fold.i]

(***************************************************************************)
(* isotypic_projection_matrix(i_character), cover.py lines 680-703.  The   *)
(* entries are rationals with the denominator automorphism_group_order():  *)
(* a matrix is held as its numerators and that denominator.                *)
(***************************************************************************)
\* l[k] of a python list: a negative k counts from the end
GetItem(l, k) == IF k >= 0 THEN l[k] ELSE l[Cardinality(DOMAIN l) + k]

\* line 701: the column of the entry that the element t gives to row (d, a)
ColumnOf(b, ch, t, copy, rank) ==
    GetItem(ch.automorphism_group_permutation[t + 1], copy - 1) * Len(Alphabet(b)) + rank

RECURSIVE SumOver(_, _, _, _, _, _, _)
SumOver(b, ch, i_character, t, copy, rank, col) ==
    IF t = ch.automorphism_group_order THEN 0
    ELSE (IF ColumnOf(b, ch, t, copy, rank) = col
          THEN ch.character_degree[i_character + 1] * ch.character_table[i_character + 1][t]
          ELSE 0)
         + SumOver(b, ch, i_character, t + 1, copy, rank, col)

isotypic_projection_matrix(b, deg, ch, i_character) ==
    LET n == Len(Alphabet(b))
        size == deg * n
    IN [den |-> ch.automorphism_group_order,
        num |-> [r \in 0 .. (size - 1) |-> [c \in 0 .. (size - 1) |->
                    SumOver(b, ch, i_character, 0, r \div n, r % n, c)]]]

\* the covers of these runs: those of the data model whose automorphism
\* group the provider above handles
DeckCovers ==
    { [base |-> IET_ab, degree |-> 4,
       permut |-> <<FromList(<<1, 2, 3, 0>>), FromList(<<0, 1, 2, 3>>)>>],
      [base |-> IET_ab, degree |-> 4,
       permut |-> <<FromList(<<1, 0, 3, 2>>), FromList(<<2, 3, 0, 1>>)>>] }

InitIso ==
    /\ \/ /\ base \in {IET_ab, GP_aab}
          /\ degree \in 1..MaxDegree
          /\ permut \in Monodromies(base, degree)
       \/ \E c \in DeckCovers : base = c.base /\ degree = c.degree /\ permut = c.permut
    /\ Provided(automorphism_group(degree, permut))
    /\ InitLocals
    /\ InitBuilt
    /\ pc = "ready"

\* the first call of _characters(): its value is kept
Call_characters ==
    /\ pc = "ready"
    /\ ~cache.made
    /\ \E order \in Orders(Irr(automorphism_group(degree, permut))) :
       \E ch \in {Characters(degree, permut, order)} :
          /\ cache' = ch
          /\ ret' = [op |-> "_characters", arg |-> <<>>, status |-> ch.status, val |-> <<>>]
    /\ pc' = "ready"
    /\ UNCHANGED <<base, degree, permut>>
    /\ UNCHANGED diagVars
    /\ UNCHANGED ctorVars
    /\ UNCHANGED lyapVars

Call_n_characters ==
    /\ pc = "ready"
    /\ cache.made /\ cache.status = "ok"
    /\ ret' = [op |-> "n_characters", arg |-> <<>>, status |-> "ok", val |-> cache.n_characters]
    /\ pc' = "returned"
    /\ UNCHANGED <<base, degree, permut, cache>>
    /\ UNCHANGED diagVars
    /\ UNCHANGED ctorVars
    /\ UNCHANGED lyapVars

Call_isotypic_projection_matrix ==
    /\ pc = "ready"
    /\ cache.made /\ cache.status = "ok"
    /\ \E i_character \in 0 .. (cache.n_characters - 1) :
          ret' = [op |-> "isotypic_projection_matrix", arg |-> <<i_character>>, status |-> "ok",
                  val |-> isotypic_projection_matrix(base, degree, cache, i_character)]
    /\ pc' = "returned"
    /\ UNCHANGED <<base, degree, permut, cache>>
    /\ UNCHANGED diagVars
    /\ UNCHANGED ctorVars
    /\ UNCHANGED lyapVars

NextIso == Call_characters \/ Call_n_characters \/ Call_isotypic_projection_matrix

SpecIso == InitIso /\ [][NextIso]_vars

\* matrices of numerators
MatMul(A, B) ==
    LET idx == DOMAIN A
        RECURSIVE Dot(_, _, _)
        Dot(r, c, x) == IF x \notin idx THEN 0 ELSE A[r][x] * B[x][c] + Dot(r, c, x + 1)
    IN [r \in idx |-> [c \in idx |-> Dot(r, c, 0)]]

MatScale(k, A) == [r \in DOMAIN A |-> [c \in DOMAIN A |-> k * A[r][c]]]

RECURSIVE SumOfProjections(_, _, _, _)
SumOfProjections(b, deg, ch, i) ==
    LET size == deg * Len(Alphabet(b))
    IN IF i = ch.n_characters
       THEN [r \in 0 .. (size - 1) |-> [c \in 0 .. (size - 1) |-> 0]]
       ELSE LET M == isotypic_projection_matrix(b, deg, ch, i).num
                R == SumOfProjections(b, deg, ch, i + 1)
            IN [r \in DOMAIN M |-> [c \in DOMAIN M |-> M[r][c] + R[r][c]]]

\* the entries the formula of the docstring gives: the element t gives row
\* (d, a) an entry in column (pi_t(d), a)
SerreEntry(b, ch, i, r, c) ==
    LET n == Len(Alphabet(b))
        hits == {t \in 1..ch.automorphism_group_order :
                    ch.automorphism_group_permutation[t][r \div n] * n + (r % n) = c}
        RECURSIVE Total(_)
        Total(S) == IF S = {} THEN 0
                    ELSE LET t == CHOOSE x \in S : TRUE
                         IN ch.character_degree[i + 1] * ch.character_table[i + 1][t - 1]
                            + Total(S \ {t})
    IN Total(hits)

(***************************************************************************)
(* C2.  For every real character i, isotypic_projection_matrix(i) is       *)
(* idempotent, the matrices of all the characters sum to the identity of   *)
(* size degree * |alphabet|, and the entry that the group element t gives  *)
(* to row (d, a) lies in column (pi_t(d), a).                              *)
(***************************************************************************)
C2_IsotypicProjections ==
    (cache.made /\ cache.status = "ok") =>
        /\ \A i \in 0 .. (cache.n_characters - 1) :
              LET P == isotypic_projection_matrix(base, degree, cache, i)
              IN /\ MatMul(P.num, P.num) = MatScale(P.den, P.num)
                 /\ \A r, c \in DOMAIN P.num : P.num[r][c] = SerreEntry(base, cache, i, r, c)
        /\ SumOfProjections(base, degree, cache, 0)
              = [r \in 0 .. (degree * Len(Alphabet(base)) - 1) |->
                    [c \in 0 .. (degree * Len(Alphabet(base)) - 1) |->
                        IF r = c THEN cache.automorphism_group_order ELSE 0]]

\* the call has returned a value
LyapReturned == pc = "returned" /\ call.made /\ ret.status = "ok"

(***************************************************************************)
(* C11.  A call that returns gives the tuple (speed, exponent list) when   *)
(* return_speed is set and the exponent list alone when it is not, for     *)
(* every nb_vectors >= 0, nb_vectors = 0 included; the list has one        *)
(* exponent per requested vector, the mean of the samples of its slot.     *)
(***************************************************************************)
C11_ResultShape ==
    LyapReturned =>
        /\ ret.val.type = (IF call.return_speed THEN "tuple" ELSE "list")
        /\ Len(ret.val.exponents) = NbVectors
        /\ NbVectors > 0 =>
              /\ \A i \in 1..NbVectors : ret.val.exponents[i] = Mean(engine[1].returned[i])
              /\ call.return_speed => ret.val.speed = Mean(engine[1].returned[0])

(***************************************************************************)
(* C12.  In a call with valid arguments, nb_vectors > 0 and lengths given  *)
(* by the caller, the one engine invocation receives those lengths as      *)
(* integers, with the label table, the interval count, the twin table,     *)
(* the flattened monodromy table, nb_experiments, nb_iterations, the       *)
(* dimension list, the projector coefficients and the verbosity flag.      *)
(***************************************************************************)
C12_EngineReceivesLengths ==
    (LyapReturned /\ NbVectors > 0) =>
        /\ Len(engine) = 1
        /\ engine[1].gp = EngineTables(base).gp
        /\ engine[1].k = Len(base.top)
        /\ engine[1].twin = EngineTables(base).twin
        /\ engine[1].sigma = sum_lists(permut)
        /\ engine[1].nb_experiments = call.nb_experiments
        /\ engine[1].nb_iterations = call.nb_iterations
        /\ engine[1].dimensions = <<NbVectors>>
        /\ engine[1].projections = None
        /\ engine[1].verbose = call.verbose
        /\ call.lengths # None => engine[1].lengths = IntLengths(call.lengths)

(***************************************************************************)
(* The loop of _characters(), cover.py lines 610-622, one iteration at a   *)
(* time.  While the loop runs, cache holds its locals: e (the exponent of  *)
(* the group), n_characters, the order the set is held in, character_set,  *)
(* real_character_table, the counter i and the exception raised, if any.   *)
(***************************************************************************)
\* the covers of these runs: covers of 'a b'/'b a', by degree and monodromy
DeckKeys ==
    UNION {{<<deg, pm>> : pm \in Monodromies(IET_ab, deg)} : deg \in 1..MaxDegree}
    \cup {<<c.degree, c.permut>> : c \in DeckCovers}

\* lines 599-605: what the provider gives for each of them, computed once
DeckData ==
    [k \in DeckKeys |->
        LET G == automorphism_group(k[1], k[2])
        IN IF Provided(G)
           THEN [irr |-> Irr(G), e |-> Exponent(G), elements |-> Elements(G)]
           ELSE [irr |-> {}, e |-> 0, elements |-> <<>>]]

\* lines 613-620: one iteration
FoldIteration_conjugate_kept(st) ==
    LET chi == PopFrom(st.order, st.character_set)
        rest == st.character_set \ {chi}
    IN IF \E t \in DOMAIN chi : ~is_real(st.e, chi[t])
       THEN [st EXCEPT !.character_set = rest,
                       !.table = Append(@, [j \in 0 .. (st.n_characters - 1) |->
                                                TwoCos(st.e, chi[j])]),
                       !.i = @ + 2]
       ELSE [st EXCEPT !.character_set = rest,
                       !.table = Append(@, [j \in DOMAIN chi |-> RealValue(st.e, chi[j])]),
                       !.i = @ + 1]

FoldIteration(st) ==
    LET chi == PopFrom(st.order, st.character_set)
        rest == st.character_set \ {chi}
    IN IF \E t \in DOMAIN chi : ~is_real(st.e, chi[t])
       THEN IF conjugate(st.e, chi) \notin rest
            THEN [st EXCEPT !.character_set = rest, !.status = "KeyError"]
            ELSE IF ~(0 .. (st.n_characters - 1) \subseteq DOMAIN chi)
            THEN [st EXCEPT !.character_set = rest \ {conjugate(st.e, chi)},
                            !.status = "IndexError"]
            ELSE [st EXCEPT !.character_set = rest \ {conjugate(st.e, chi)},
                            !.table = Append(@, [j \in 0 .. (st.n_characters - 1) |->
                                                     TwoCos(st.e, chi[j])]),
                            !.i = @ + 2]
       ELSE [st EXCEPT !.character_set = rest,
                       !.table = Append(@, [j \in DOMAIN chi |-> RealValue(st.e, chi[j])]),
                       !.i = @ + 1]

\* lines 599-611: the provider's data and the locals before the loop
Fold_Start ==
    /\ pc = "ready"
    /\ ~cache.made
    /\ LET data == DeckData[<<degree, permut>>]
       IN \E irr \in {data.irr} : \E order \in Orders(irr) :
             cache' = [made |-> FALSE, e |-> data.e, n_characters |-> Cardinality(irr),
                       order |-> order, character_set |-> irr, table |-> <<>>, i |-> 0,
                       status |-> "ok"]
    /\ pc' = "fold"
    /\ UNCHANGED <<base, degree, permut, ret>>
    /\ UNCHANGED diagVars
    /\ UNCHANGED ctorVars
    /\ UNCHANGED lyapVars

\* lines 612-620: while character_set
Fold_Step ==
    /\ pc = "fold"
    /\ cache.character_set # {}
    /\ \E st \in {FoldIteration(cache)} :
          IF st.status = "ok"
          THEN /\ cache' = st
               /\ pc' = "fold"
               /\ ret' = ret
          ELSE /\ cache' = st
               /\ pc' = "raised"
               /\ ret' = [op |-> "_characters", arg |-> <<>>, status |-> st.status, val |-> <<>>]
    /\ UNCHANGED <<base, degree, permut>>
    /\ UNCHANGED diagVars
    /\ UNCHANGED ctorVars
    /\ UNCHANGED lyapVars

\* lines 622-625: the loop has ended; the tuple is returned and kept
Fold_Finish ==
    /\ pc = "fold"
    /\ cache.character_set = {}
    /\ cache' = [made |-> TRUE,
                 status |-> "ok",
                 character_table |-> cache.table,
                 character_degree |-> [x \in 1..cache.n_characters |-> 1],
                 automorphism_group_order |-> Len(DeckData[<<degree, permut>>].elements),
                 automorphism_group_permutation |-> DeckData[<<degree, permut>>].elements,
                 n_characters |-> Len(cache.table),
                 i |-> cache.i]
    /\ ret' = [op |-> "_characters", arg |-> <<>>, status |-> "ok", val |-> <<>>]
    /\ pc' = "ready"
    /\ UNCHANGED <<base, degree, permut>>
    /\ UNCHANGED diagVars
    /\ UNCHANGED ctorVars
    /\ UNCHANGED lyapVars

InitFold ==
    /\ base = IET_ab
    /\ \E k \in DeckKeys : degree = k[1] /\ permut = k[2]
    /\ DeckData[<<degree, permut>>].e # 0
    /\ InitLocals
    /\ InitBuilt
    /\ pc = "ready"

NextFold == Fold_Start \/ Fold_Step \/ Fold_Finish \/ Call_n_characters

SpecFold == InitFold /\ [][NextFold]_vars /\ WF_vars(NextFold)

\* the irreducible characters of the cover, and the exponent of its group
IrrOfCover == DeckData[<<degree, permut>>].irr

ExponentOfCover == DeckData[<<degree, permut>>].e

SelfConjugate(chi) == conjugate(ExponentOfCover, chi) = chi

\* the real character of chi: chi itself when it is self-conjugate, and the
\* sum of chi and its conjugate when it is not
RealCharacterOf(chi) ==
    IF SelfConjugate(chi)
    THEN [t \in DOMAIN chi |-> RealValue(ExponentOfCover, chi[t])]
    ELSE [t \in DOMAIN chi |-> TwoCos(ExponentOfCover, chi[t])]

\* the number of real characters of a set of characters closed under
\* conjugation
RealCount(S) ==
    Cardinality({chi \in S : SelfConjugate(chi)})
    + Cardinality({chi \in S : ~SelfConjugate(chi)}) \div 2

\* table holds one real character for every self-conjugate character of S
\* and one for every pair of conjugates of S
EmitsOnce(table, S) ==
    /\ \A chi \in S : conjugate(ExponentOfCover, chi) \in S
    /\ Range(table) = {RealCharacterOf(chi) : chi \in S}
    /\ Len(table) = RealCount(S)

C13_Safe ==
    /\ pc # "raised"
    /\ pc = "fold" =>
          /\ cache.status = "ok"
          /\ cache.character_set \subseteq IrrOfCover
          /\ EmitsOnce(cache.table, IrrOfCover \ cache.character_set)
    /\ cache.made =>
          /\ EmitsOnce(cache.character_table, IrrOfCover)
          /\ cache.n_characters = RealCount(IrrOfCover)
          /\ cache.i = Cardinality(IrrOfCover)
    /\ (pc = "returned" /\ ret.op = "n_characters") => ret.val = RealCount(IrrOfCover)

(***************************************************************************)
(* C13.  The fold of _characters terminates; it consumes every irreducible *)
(* character exactly once, a self-conjugate one emitted unchanged and a    *)
(* non-self-conjugate one merged with its conjugate into one sum; and      *)
(* n_characters() is the number of emitted real characters, the number of  *)
(* self-conjugate characters plus half the number of the others, whatever  *)
(* the counter i of the loop holds.                                        *)
(***************************************************************************)
C13_RealCharacterFold == [](C13_Safe) /\ <>(cache.made)

\* n_characters() reported for a group with characters that are not
\* self-conjugate: the counter i is larger than the count
C13_Witness ==
    /\ pc = "returned"
    /\ ret.op = "n_characters"
    /\ cache.made
    /\ \E chi \in IrrOfCover : ~SelfConjugate(chi)
    /\ cache.i > ret.val

(***************************************************************************)
(* homology_cycle_matrix(), cover.py lines 182-202, after its call of      *)
(* interval_diagram(glue_ends=False, sign=True) has returned, up to the    *)
(* list borders; the left kernel of line 202 is not computed.              *)
(***************************************************************************)
\* lines 192-194 and 196-198: the index at which the search loop stops
RECURSIVE FindOrbit(_, _, _)
FindOrbit(sings, triple, i) ==
    IF i < Len(sings) /\ ~(\E q \in 1..Len(sings[i + 1]) : sings[i + 1][q] = triple)
    THEN FindOrbit(sings, triple, i + 1)
    ELSE i

\* lines 191-200: the border vector of the copy and the label; a store at
\* index nb_sing raises IndexError
BorderSide_uncancelled(sings, a, copy) ==
    LET nb_sing == Len(sings)
        i == FindOrbit(sings, <<a, 0, copy>>, 0)
        j == FindOrbit(sings, <<a, 1, copy>>, 0)
    IN IF i >= nb_sing \/ j >= nb_sing
       THEN [status |-> "IndexError", row |-> <<>>]
       ELSE [status |-> "ok",
             row |-> [x \in 0 .. (nb_sing - 1) |->
                         IF x = j THEN -1 ELSE IF x = i THEN 1 ELSE 0]]

BorderSide(sings, a, copy) ==
    LET nb_sing == Len(sings)
        i == FindOrbit(sings, <<a, 0, copy>>, 0)
        j == FindOrbit(sings, <<a, 1, copy>>, 0)
    IN IF i >= nb_sing \/ j >= nb_sing
       THEN [status |-> "IndexError", row |-> <<>>]
       ELSE [status |-> "ok",
             row |-> [x \in 0 .. (nb_sing - 1) |->
                         IF x = j THEN (IF i = j THEN 0 ELSE -1)
                         ELSE IF x = i THEN 1 ELSE 0]]

\* lines 189-201: borders, one vector per pair of rel_homology_generator()
Borders(b, deg, sings) ==
    [r \in 1 .. (deg * Len(Alphabet(b))) |->
        BorderSide(sings, Alphabet(b)[((r - 1) % Len(Alphabet(b))) + 1],
                   (r - 1) \div Len(Alphabet(b)))]

\* lines 186-201, once interval_diagram has returned
HCM_Borders ==
    /\ pc = "done"
    /\ sign
    /\ \E bs \in {Borders(base, degree, singularities)} :
          IF \E r \in 1..Len(bs) : bs[r].status # "ok"
          THEN ret' = [op |-> "homology_cycle_matrix", arg |-> <<>>,
                       status |-> "IndexError", val |-> <<>>]
          ELSE ret' = [op |-> "homology_cycle_matrix", arg |-> <<>>, status |-> "ok",
                       val |-> [r \in 1..Len(bs) |-> bs[r].row]]
    /\ pc' = "returned"
    /\ UNCHANGED <<base, degree, permut>>
    /\ UNCHANGED diagVars
    /\ UNCHANGED ctorVars
    /\ UNCHANGED lyapVars
    /\ UNCHANGED cache

NextCycle == ID_Call \/ ID_Pop \/ ID_Pass \/ ID_NextOrbit \/ HCM_Borders

SpecCycle == InitDiagram /\ [][NextCycle]_vars

\* the orbits of the diagram that hold the triple
OrbitsWith(triple) ==
    {n \in 1..Len(singularities) :
        \E q \in 1..Len(singularities[n]) : singularities[n][q] = triple}

RECURSIVE RowSum(_, _)
RowSum(row, x) == IF x \notin DOMAIN row THEN 0 ELSE row[x] + RowSum(row, x + 1)

(***************************************************************************)
(* C14.  In homology_cycle_matrix, for every copy d and label a, each of   *)
(* the triples (a,0,d) and (a,1,d) lies in an orbit of                     *)
(* interval_diagram(sign=True), so no search reaches the number of orbits; *)
(* the border vector of (d,a) is all zero when both lie in the same orbit, *)
(* and otherwise has one +1, at the orbit of (a,0,d), one -1, at the orbit *)
(* of (a,1,d), and 0 elsewhere: every border vector sums to 0.             *)
(***************************************************************************)
C14_BorderVectors ==
    (pc = "returned" /\ ret.op = "homology_cycle_matrix") =>
        /\ ret.status = "ok"
        /\ Len(ret.val) = degree * Len(Alphabet(base))
        /\ \A c \in Copies(degree) : \A k \in 1..Len(Alphabet(base)) :
              LET a == Alphabet(base)[k]
                  row == ret.val[rel_homology_index(base, degree, c, a) + 1]
                  plus == OrbitsWith(<<a, 0, c>>)
                  minus == OrbitsWith(<<a, 1, c>>)
              IN /\ Cardinality(plus) = 1
                 /\ Cardinality(minus) = 1
                 /\ DOMAIN row = 0 .. (Len(singularities) - 1)
                 /\ \A x \in DOMAIN row :
                       row[x] = IF plus = minus THEN 0
                                ELSE IF x + 1 \in plus THEN 1
                                ELSE IF x + 1 \in minus THEN -1 ELSE 0
                 /\ RowSum(row, 0) = 0

\* borders with a vector that is all zero and a vector with a +1 and a -1
C14_Witness ==
    /\ pc = "returned"
    /\ ret.op = "homology_cycle_matrix"
    /\ ret.status = "ok"
    /\ \E r \in 1..Len(ret.val) : \A x \in DOMAIN ret.val[r] : ret.val[r][x] = 0
    /\ \E r \in 1..Len(ret.val) : \E x, y \in DOMAIN ret.val[r] :
          ret.val[r][x] = 1 /\ ret.val[r][y] = -1

\* the occurrences (side, position) of the base
OccurrencePairs(b) ==
    {<<0, j>> : j \in 0 .. (Len(b.top) - 1)} \cup {<<1, j>> : j \in 0 .. (Len(b.bot) - 1)}

(***************************************************************************)
(* C15.  In the tables handed to the engine by lyapunov_exponents_H_plus,  *)
(* the flat index j + i*len(top row) maps the occurrences (side i,         *)
(* position j) one-to-one onto 0..2n-1, also when the two rows have        *)
(* different lengths, and the twin table is an involution without fixed    *)
(* point that preserves labels: twin[twin[x]] = x, twin[x] # x and         *)
(* gp[twin[x]] = gp[x] for every occurrence x.                             *)
(***************************************************************************)
C15_EngineEncoding ==
    Len(engine) >= 1 =>
        LET gp == engine[1].gp
            twin == engine[1].twin
            all == 0 .. (2 * BaseLen(base) - 1)
        IN /\ {convert(base, o[1], o[2]) : o \in OccurrencePairs(base)} = all
           /\ \A o1, o2 \in OccurrencePairs(base) :
                 convert(base, o1[1], o1[2]) = convert(base, o2[1], o2[2]) => o1 = o2
           /\ DOMAIN gp = all
           /\ DOMAIN twin = all
           /\ \A o \in OccurrencePairs(base) :
                 gp[convert(base, o[1], o[2])] = Rank(base, LabelAt(base, o[1], o[2]))
           /\ \A x \in all :
                 /\ twin[x] \in all
                 /\ twin[twin[x]] = x
                 /\ twin[x] # x
                 /\ gp[twin[x]] = gp[x]

\* an engine call for a base with rows of different lengths, with a label
\* paired inside the top row and a label paired across the rows
C15_Witness ==
    /\ Len(engine) = 1
    /\ Len(base.top) # Len(base.bot)
    /\ engine[1].twin[0] = 1
    /\ engine[1].twin[4] = 5
    /\ engine[1].twin[5] = 4

=============================================================================
